---- MODULE Spec2Model ----
(***************************************************************************)
(* Model of ConfAppManager (src/src/ui/conf/confappmanager.cpp): the       *)
(* application-policy store, its expiry timer, the three notification      *)
(* triggers and the pushes to the driver.                                  *)
(*                                                                         *)
(* Everything runs on the main thread, so each public handler is one       *)
(* atomic action.  A handler is written as an operator on a "machine"      *)
(* record m that is threaded through the statements of the C++ function:   *)
(*   m.db    the committed database   [apps, alerts]                       *)
(*   m.timer m_appEndTimer            [active, interval, startedAt]        *)
(*   m.pend  the armed notification triggers (subset of Channels)          *)
(*   m.mask  m_driveMask (a set of drives)                                 *)
(*   m.now   the wall clock in msecs (read only inside a handler)          *)
(*   m.log   the events of the running handler, in program order          *)
(*   m.ret   the handler's return value                                    *)
(*                                                                         *)
(* Values.  A path is a number 1..n, the empty path (stored as SQL NULL)   *)
(* is NoPath.  An origin path is one of two spellings 2p-1, 2p of path p.  *)
(* A QDateTime is its msecs since epoch, the null QDateTime / SQL NULL is  *)
(* NullTime.  The eight option columns use_group_perm .. log_conn,         *)
(* accept_zones, reject_zones are always copied together and are kept as   *)
(* the single field opts.  creat_time is never read and is left out.       *)
(***************************************************************************)
EXTENDS Integers, Sequences, FiniteSets, TLC

VARIABLES db, timer, pend, mask, now, log, last, pre, ops

vars == <<db, timer, pend, mask, now, log, last, pre, ops>>

-----------------------------------------------------------------------------
(* Program constants *)

APP_END_TIMER_INTERVAL_MIN == 100

APP_END_TIMER_INTERVAL_MAX == 24 * 60 * 60 * 1000

\* updateAppsBlocked: a list longer than this always ends with a full push
BlockedBatchLimit == 7

-----------------------------------------------------------------------------
(* Bounds of the model *)

\* handler calls explored from each initial state
MaxOps == 2

\* rows of the larger stores used for batch operations
MaxBatch == 8

\* handler calls explored from each of the larger stores
BatchOps == 1

\* rows of the stores used for the expiry timer
TimerRows == 3

\* handler calls explored while the notification triggers fire
NotifyOps == 2

-----------------------------------------------------------------------------
(* Value domains *)

NoPath == 0

NullTime == 0

Min(S) == CHOOSE x \in S : \A y \in S : x <= y

Max(S) == CHOOSE x \in S : \A y \in S : x >= y

Paths == {1, 2}

OriginPaths == {1, 2, 3}

Channels == {"alerted", "changed", "updated"}

\* wall-clock instants the clock steps through; the first is the start time
TimePoints == {1000, 1200, 2000, 1000 + APP_END_TIMER_INTERVAL_MAX + 500}

StartTime == Min(TimePoints)

\* deadlines a caller may pass: 40 ms, 500 ms and more than one day after start
EndTimes == {1040, 1500, 1000 + 2 * APP_END_TIMER_INTERVAL_MAX}

Names == {"", "n1", "n2"}

qMin(a, b) == IF a < b THEN a ELSE b

qMax(a, b) == IF a > b THEN a ELSE b

-----------------------------------------------------------------------------
(* Collaborators outside the manager *)

\* FirewallConf::appGroupAt: two groups at order indexes 0 and 1; any other
\* index gives the null group
GroupIndexes == {0, 1}

AppGroupIsNull(groupIndex) == groupIndex \notin GroupIndexes

\* AppGroup::id(): the group's database id, which is not its order index
AppGroupId(groupIndex) == 10 * (groupIndex + 1)

\* app_group.order_index of a group id (the JOIN of SELECT_APP_FIELDS)
GroupOrderIndex(groupId) == (groupId \div 10) - 1

\* FileUtil::normalizePath: both spellings of a path give the path
normalizePath(originPath) == (originPath + 1) \div 2

\* ConfUtil::driveMask of one path: the drive the path lives on
PathDrive(path) == IF path = NoPath THEN {} ELSE {path % 2}

-----------------------------------------------------------------------------
(* App (conf/app.h) as used by the manager, with its default values *)

DefaultApp ==
    [appId |-> 0, groupIndex |-> 0, appOriginPath |-> 0, appPath |-> NoPath,
     appName |-> "", isWildcard |-> FALSE, opts |-> 0, blocked |-> FALSE,
     killProcess |-> FALSE, endTime |-> NullTime, alerted |-> FALSE]

\* fillApp: the columns of SELECT_APP_FIELDS; name and end_time are not among
\* them, so appName and endTime keep their defaults
fillApp(d, row) ==
    [DefaultApp EXCEPT
        !.appId = row.app_id,
        !.appOriginPath = row.origin_path,
        !.appPath = row.path,
        !.isWildcard = row.is_wildcard,
        !.opts = row.opts,
        !.blocked = row.blocked,
        !.killProcess = row.kill_process,
        !.groupIndex = GroupOrderIndex(row.app_group_id),
        !.alerted = (row.app_id \in d.alerts)]

-----------------------------------------------------------------------------
(* The database: d.apps is the app table (app_id -> row), d.alerts the      *)
(* app_alert table.  A statement returns [d, ok, res].                      *)

EmptyDb == [apps |-> [i \in {} |-> 0], alerts |-> {}]

Ids(d) == DOMAIN d.apps

NewId(d) == IF Ids(d) = {} THEN 1 ELSE Max(Ids(d)) + 1

IdsByPath(d, path) == {i \in Ids(d) : path # NoPath /\ d.apps[i].path = path}

Failed(d) == [d |-> d, ok |-> FALSE, res |-> 0]

\* sqlSelectAppIdByPath / appIdByPath: 0 when no row matches (NULL matches nothing)
appIdByPath(d, appPath) ==
    IF IdsByPath(d, appPath) = {} THEN 0 ELSE Min(IdsByPath(d, appPath))

\* the columns an INSERT/UPDATE writes, as bound from an App (the vars lists of
\* addOrUpdateApp and updateApp): the group's id, not its index
AppVars(app) ==
    [app_group_id |-> AppGroupId(app.groupIndex),
     origin_path |-> app.appOriginPath,
     path |-> app.appPath,
     name |-> app.appName,
     is_wildcard |-> app.isWildcard,
     opts |-> app.opts,
     blocked |-> app.blocked,
     kill_process |-> app.killProcess,
     end_time |-> app.endTime]

RowOf(id, v) ==
    [app_id |-> id, app_group_id |-> v.app_group_id, origin_path |-> v.origin_path,
     path |-> v.path, name |-> v.name, is_wildcard |-> v.is_wildcard,
     opts |-> v.opts, blocked |-> v.blocked, kill_process |-> v.kill_process,
     end_time |-> v.end_time]

PutRow(d, row) ==
    [d EXCEPT !.apps = [i \in Ids(d) \cup {row.app_id} |->
                            IF i = row.app_id THEN row ELSE d.apps[i]]]

\* sqlUpsertApp without its ON CONFLICT clause: always a new row
sqlUpsertApp_insertOnly(d, v, fail) ==
    IF fail THEN Failed(d)
    ELSE [d |-> PutRow(d, RowOf(NewId(d), v)), ok |-> TRUE, res |-> NewId(d)]

\* INSERT ... ON CONFLICT(path) DO UPDATE SET <all but path, creat_time>
\* RETURNING app_id.  A NULL path never conflicts.
sqlUpsertApp(d, v, fail) ==
    IF fail THEN Failed(d)
    ELSE LET id == appIdByPath(d, v.path)
         IN  IF id # 0
             THEN [d |-> PutRow(d, RowOf(id, v)), ok |-> TRUE, res |-> id]
             ELSE [d |-> PutRow(d, RowOf(NewId(d), v)), ok |-> TRUE, res |-> NewId(d)]

\* INSERT INTO app_alert(app_id): app_id is the table's key, so a second
\* insert for the same id is a constraint error
sqlInsertAppAlert(d, id, fail) ==
    IF fail \/ id \in d.alerts THEN Failed(d)
    ELSE [d |-> [d EXCEPT !.alerts = @ \cup {id}], ok |-> TRUE, res |-> 0]

\* sqlDeleteAppAlert deleting nothing
sqlDeleteAppAlert_noop(d, id, fail) ==
    IF fail THEN Failed(d) ELSE [d |-> d, ok |-> TRUE, res |-> 0]

\* DELETE FROM app_alert WHERE app_id = ?1
sqlDeleteAppAlert(d, id, fail) ==
    IF fail THEN Failed(d)
    ELSE [d |-> [d EXCEPT !.alerts = @ \ {id}], ok |-> TRUE, res |-> 0]

\* DELETE FROM app WHERE app_id = ?1 RETURNING path, is_wildcard
sqlDeleteApp(d, id, fail) ==
    IF fail \/ id \notin Ids(d) THEN Failed(d)
    ELSE [d |-> [d EXCEPT !.apps = [i \in Ids(d) \ {id} |-> d.apps[i]]],
          ok |-> TRUE,
          res |-> <<d.apps[id].path, d.apps[id].is_wildcard>>]

\* UPDATE app SET <all columns> WHERE app_id = ?1.  Writing a path another row
\* holds violates the unique index on path; an unknown id updates nothing.
sqlUpdateApp(d, id, v, fail) ==
    IF fail \/ (IdsByPath(d, v.path) \ {id} # {}) THEN Failed(d)
    ELSE IF id \notin Ids(d) THEN [d |-> d, ok |-> TRUE, res |-> 0]
    ELSE [d |-> PutRow(d, RowOf(id, v)), ok |-> TRUE, res |-> 0]

\* sqlUpdateAppName also resetting end_time
sqlUpdateAppName_resetEndTime(d, id, name, fail) ==
    IF fail THEN Failed(d)
    ELSE IF id \notin Ids(d) THEN [d |-> d, ok |-> TRUE, res |-> 0]
    ELSE [d |-> [d EXCEPT !.apps[id].name = name, !.apps[id].end_time = NullTime],
          ok |-> TRUE, res |-> 0]

\* UPDATE app SET name = ?2 WHERE app_id = ?1
sqlUpdateAppName(d, id, name, fail) ==
    IF fail THEN Failed(d)
    ELSE IF id \notin Ids(d) THEN [d |-> d, ok |-> TRUE, res |-> 0]
    ELSE [d |-> [d EXCEPT !.apps[id].name = name], ok |-> TRUE, res |-> 0]

\* sqlUpdateAppBlocked without "end_time = NULL"
sqlUpdateAppBlocked_keepEndTime(d, id, blocked, killProcess, fail) ==
    IF fail THEN Failed(d)
    ELSE IF id \notin Ids(d) THEN [d |-> d, ok |-> TRUE, res |-> 0]
    ELSE [d |-> [d EXCEPT !.apps[id].blocked = blocked,
                          !.apps[id].kill_process = killProcess],
          ok |-> TRUE, res |-> 0]

\* UPDATE app SET blocked = ?2, kill_process = ?3, end_time = NULL WHERE app_id = ?1
sqlUpdateAppBlocked(d, id, blocked, killProcess, fail) ==
    IF fail THEN Failed(d)
    ELSE IF id \notin Ids(d) THEN [d |-> d, ok |-> TRUE, res |-> 0]
    ELSE [d |-> [d EXCEPT !.apps[id].blocked = blocked,
                          !.apps[id].kill_process = killProcess,
                          !.apps[id].end_time = NullTime],
          ok |-> TRUE, res |-> 0]

\* SELECT MIN(end_time) FROM app WHERE end_time != 0 AND blocked = 0
\* (NULL, read with toLongLong as 0, when no row qualifies)
PendingIds(d) ==
    {i \in Ids(d) : d.apps[i].end_time # NullTime /\ ~d.apps[i].blocked}

\* sqlSelectMinEndApp with MAX for MIN
sqlSelectMinEndApp_max(d) ==
    IF PendingIds(d) = {} THEN 0 ELSE Max({d.apps[i].end_time : i \in PendingIds(d)})

sqlSelectMinEndApp(d) ==
    IF PendingIds(d) = {} THEN 0 ELSE Min({d.apps[i].end_time : i \in PendingIds(d)})

\* sqlSelectEndedApps without the comparison to the current time
sqlSelectEndedApps_anyTime(d, t) ==
    {i \in Ids(d) : d.apps[i].end_time # NullTime /\ ~d.apps[i].blocked}

\* sqlSelectEndedApps treating a NULL end_time as time 0
sqlSelectEndedApps_nullIsZero(d, t) ==
    {i \in Ids(d) : d.apps[i].end_time <= t /\ ~d.apps[i].blocked}

\* SELECT ... WHERE end_time <= ?1 AND blocked = 0 (a NULL end_time never compares)
sqlSelectEndedApps(d, t) ==
    {i \in Ids(d) : /\ d.apps[i].end_time # NullTime
                    /\ d.apps[i].end_time <= t
                    /\ ~d.apps[i].blocked}

\* SqliteDb::endTransaction(ok): commit when ok, else roll back; a commit can
\* itself fail, which leaves the database as it was before the transaction
endTransaction(before, tx, ok, commitFails) ==
    IF ok /\ ~commitFails THEN [d |-> tx, ok |-> TRUE] ELSE [d |-> before, ok |-> FALSE]

-----------------------------------------------------------------------------
(* Faults injected into one handler call.                                   *)
(*   f.stmt  0: none, 1: the first statement of a transaction fails,        *)
(*           2: its alert statement fails, 3: its COMMIT fails              *)
(*   f.on    the app id whose transaction is hit, 0 for every transaction   *)
(*   f.push  what every driver push of the call meets: "ok", "encode" (the  *)
(*           encoder returns size 0) or "write" (the driver rejects it)     *)
(* Read-only queries are taken to succeed.                                  *)

NoFault == [stmt |-> 0, on |-> 0, push |-> "ok"]

Hit(f, id, n) == f.stmt = n /\ (f.on = 0 \/ f.on = id)

Ev(ev, arg, res) == [ev |-> ev, arg |-> arg, res |-> res]

Logged(m, ev, arg, res) == [m EXCEPT !.log = Append(@, Ev(ev, arg, res))]

ResOf(ok) == IF ok THEN "ok" ELSE "fail"

\* showErrorMessage
showErrorMessage(m) == Logged(m, "error", 0, "ok")

\* beginTransaction
beginTransaction(m, id) == Logged(m, "begin", id, "ok")

\* checkEndTransaction: shows the database's error message when ok is false
checkEndTransaction(m, ok) == IF ok THEN m ELSE showErrorMessage(m)

\* commitTransaction(ok): ends the transaction that turned m.db into tx.  Its
\* result is the second component; no caller in this file reads it.
commitTransaction(m, tx, id, ok, commitFails) ==
    LET r == endTransaction(m.db, tx, ok, commitFails)
        m1 == Logged([m EXCEPT !.db = r.d], "commit", id, ResOf(r.ok))
    IN  <<checkEndTransaction(m1, r.ok), r.ok>>

-----------------------------------------------------------------------------
(* Expiry timer and notification triggers *)

StoppedTimer == [active |-> FALSE, interval |-> 0, startedAt |-> 0]

\* A qint64 count of milliseconds is the pair <<q, r>> standing for
\* q * 2^30 + r with 0 <= r < 2^30, so that instants beyond the range of a
\* 32-bit int can be written down.
WideBase == 2 ^ 30

Wide(x) == <<x \div WideBase, x % WideBase>>

WideLess(a, b) == a[1] < b[1] \/ (a[1] = b[1] /\ a[2] < b[2])

\* a - b
WideSub(a, b) ==
    IF a[2] >= b[2] THEN <<a[1] - b[1], a[2] - b[2]>>
    ELSE <<a[1] - b[1] - 1, a[2] - b[2] + WideBase>>

\* qMin on qint64
WideMin(a, b) == IF WideLess(a, b) THEN a ELSE b

\* int(x) of a qint64: its low 32 bits read as a signed number
ToInt(w) ==
    LET q == w[1] % 4
    IN  IF q < 2 THEN q * WideBase + w[2] ELSE (q - 4) * WideBase + w[2]

\* the interval computed with the conversion to int applied before qMin
TimerIntervalWide_castFirst(endTimeMsecs, currentMsecs) ==
    LET deltaMsecs == WideSub(endTimeMsecs, currentMsecs)
    IN  qMax(IF WideLess(<<0, 0>>, deltaMsecs)
             THEN qMin(ToInt(deltaMsecs), APP_END_TIMER_INTERVAL_MAX)
             ELSE 0,
             APP_END_TIMER_INTERVAL_MIN)

\* the interval updateAppEndTimer computes for deadline endTimeMsecs:
\* qMax(deltaMsecs > 0 ? int(qMin(deltaMsecs, qint64(MAX))) : 0, MIN)
TimerIntervalWide(endTimeMsecs, currentMsecs) ==
    LET deltaMsecs == WideSub(endTimeMsecs, currentMsecs)
    IN  qMax(IF WideLess(<<0, 0>>, deltaMsecs)
             THEN ToInt(WideMin(deltaMsecs, Wide(APP_END_TIMER_INTERVAL_MAX)))
             ELSE 0,
             APP_END_TIMER_INTERVAL_MIN)

TimerInterval(endTimeMsecs, currentMsecs) ==
    TimerIntervalWide(Wide(endTimeMsecs), Wide(currentMsecs))

updateAppEndTimer(m) ==
    LET endTimeMsecs == sqlSelectMinEndApp(m.db)
    IN  IF endTimeMsecs # 0
        THEN Logged([m EXCEPT !.timer = [active |-> TRUE,
                                         interval |-> TimerInterval(endTimeMsecs, m.now),
                                         startedAt |-> m.now]],
                    "timerStart", endTimeMsecs, "ok")
        ELSE Logged([m EXCEPT !.timer = StoppedTimer], "timerStop", 0, "ok")

\* TriggerTimer::startTrigger: arms the channel's trigger unless it is armed
startTrigger(m, ch) == Logged([m EXCEPT !.pend = @ \cup {ch}], "emit", 0, ch)

emitAppAlerted(m) == startTrigger(m, "alerted")

emitAppChanged(m) == startTrigger(m, "changed")

\* emitAppUpdated starting the trigger of "changed"
emitAppUpdated_onChanged(m) == startTrigger(m, "changed")

emitAppUpdated(m) == startTrigger(m, "updated")

-----------------------------------------------------------------------------
(* Driver pushes *)

\* ConfUtil::driveMask after write(): the drives of every stored path
ConfDriveMask(d) == UNION {PathDrive(d.apps[i].path) : i \in Ids(d)}

\* updateDriverConf attempting a failed push a second time
updateDriverConf_retryOnce(m, f) ==
    IF f.push = "encode"
    THEN [showErrorMessage(Logged(showErrorMessage(Logged(m, "writeConf", 0, "encode")),
                                  "writeConf", 0, "encode")) EXCEPT !.ret = FALSE]
    ELSE IF f.push = "write"
    THEN [showErrorMessage(Logged(showErrorMessage(Logged(m, "writeConf", 0, "write")),
                                  "writeConf", 0, "write")) EXCEPT !.ret = FALSE]
    ELSE [Logged(m, "writeConf", 0, "ok") EXCEPT !.mask = ConfDriveMask(m.db), !.ret = TRUE]

updateDriverConf(m, f) ==
    IF f.push = "encode"
    THEN [showErrorMessage(Logged(m, "writeConf", 0, "encode")) EXCEPT !.ret = FALSE]
    ELSE IF f.push = "write"
    THEN [showErrorMessage(Logged(m, "writeConf", 0, "write")) EXCEPT !.ret = FALSE]
    ELSE [Logged(m, "writeConf", 0, "ok") EXCEPT !.mask = ConfDriveMask(m.db), !.ret = TRUE]

\* updateDriverUpdateApp assigning the entry's mask to m_driveMask
updateDriverUpdateApp_assign(m, app, remove, f) ==
    LET ev == IF remove THEN "removeApp" ELSE "writeApp"
    IN  IF f.push = "encode"
        THEN [showErrorMessage(Logged(m, ev, app.appPath, "encode")) EXCEPT !.ret = FALSE]
        ELSE IF f.push = "write"
        THEN [showErrorMessage(Logged(m, ev, app.appPath, "write")) EXCEPT !.ret = FALSE]
        ELSE [Logged(m, ev, app.appPath, "ok") EXCEPT
                 !.mask = IF remove THEN {} ELSE PathDrive(app.appPath),
                 !.ret = TRUE]

updateDriverUpdateApp(m, app, remove, f) ==
    LET ev == IF remove THEN "removeApp" ELSE "writeApp"
    IN  IF f.push = "encode"
        THEN [showErrorMessage(Logged(m, ev, app.appPath, "encode")) EXCEPT !.ret = FALSE]
        ELSE IF f.push = "write"
        THEN [showErrorMessage(Logged(m, ev, app.appPath, "write")) EXCEPT !.ret = FALSE]
        ELSE [Logged(m, ev, app.appPath, "ok") EXCEPT
                 !.mask = @ \cup (IF remove THEN {} ELSE PathDrive(app.appPath)),
                 !.ret = TRUE]

\* updateDriverDeleteApp passing remove = false
updateDriverDeleteApp_noRemove(m, appPath, f) ==
    updateDriverUpdateApp(m, [DefaultApp EXCEPT !.appPath = appPath], FALSE, f)

updateDriverDeleteApp(m, appPath, f) ==
    updateDriverUpdateApp(m, [DefaultApp EXCEPT !.appPath = appPath], TRUE, f)

updateDriverUpdateAppConf(m, app, f) ==
    IF app.isWildcard THEN updateDriverConf(m, f) ELSE updateDriverUpdateApp(m, app, FALSE, f)

-----------------------------------------------------------------------------
(* The handlers.  Each returns the machine after the call, m.ret set. *)

\* addOrUpdateApp testing the group after the upsert, before the commit
addOrUpdateApp_lateGroupCheck(m, app, f) ==
    LET m1 == beginTransaction(m, app.appId)
        up == sqlUpsertApp(m1.db, AppVars(app), Hit(f, app.appId, 1))
        ok == up.ok /\ ~AppGroupIsNull(app.groupIndex)
        al == IF ~ok THEN up
              ELSE IF app.alerted THEN sqlInsertAppAlert(up.d, up.res, Hit(f, app.appId, 2))
              ELSE sqlDeleteAppAlert(up.d, up.res, Hit(f, app.appId, 2))
        m2 == commitTransaction(m1, al.d, app.appId, ok, Hit(f, app.appId, 3))[1]
        m3 == IF ok /\ app.endTime # NullTime THEN updateAppEndTimer(m2) ELSE m2
        m4 == IF ok THEN emitAppChanged(m3) ELSE m3
    IN  [m4 EXCEPT !.ret = ok]

addOrUpdateApp(m, app, f) ==
    IF AppGroupIsNull(app.groupIndex) THEN [m EXCEPT !.ret = FALSE]
    ELSE
    LET m1 == beginTransaction(m, app.appId)
        up == sqlUpsertApp(m1.db, AppVars(app), Hit(f, app.appId, 1))
        ok == up.ok
        \* the alert statement's own result is not read
        al == IF ~ok THEN up
              ELSE IF app.alerted THEN sqlInsertAppAlert(up.d, up.res, Hit(f, app.appId, 2))
              ELSE sqlDeleteAppAlert(up.d, up.res, Hit(f, app.appId, 2))
        m2 == commitTransaction(m1, al.d, app.appId, ok, Hit(f, app.appId, 3))[1]
        m3 == IF ok /\ app.endTime # NullTime THEN updateAppEndTimer(m2) ELSE m2
        m4 == IF ok THEN emitAppChanged(m3) ELSE m3
    IN  [m4 EXCEPT !.ret = ok]

\* addApp that encodes the entry before it writes the store
addApp_encodeFirst(m, app, f) ==
    IF f.push = "encode" THEN [showErrorMessage(m) EXCEPT !.ret = FALSE]
    ELSE LET m1 == addOrUpdateApp(m, app, f)
         IN  IF ~m1.ret THEN m1
             ELSE [updateDriverUpdateAppConf(m1, app, f) EXCEPT !.ret = TRUE]

addApp(m, app, f) ==
    LET m1 == addOrUpdateApp(m, app, f)
    IN  IF ~m1.ret THEN m1
        ELSE [updateDriverUpdateAppConf(m1, app, f) EXCEPT !.ret = TRUE]

\* LogEntryBlocked carries the path and the blocked flag; appName is what
\* AppInfoCache::appName answers for the path
logBlockedApp(m, appOriginPath, blocked, appName, f) ==
    LET appPath == normalizePath(appOriginPath)
        app == [DefaultApp EXCEPT !.blocked = blocked, !.alerted = TRUE,
                                  !.groupIndex = 0,
                                  !.appOriginPath = appOriginPath,
                                  !.appPath = appPath, !.appName = appName]
    IN  IF appIdByPath(m.db, appPath) > 0 THEN [m EXCEPT !.ret = TRUE]
        ELSE LET m1 == addOrUpdateApp(m, app, f)
             IN  IF m1.ret THEN [emitAppAlerted(m1) EXCEPT !.ret = TRUE]
                 ELSE [m1 EXCEPT !.ret = TRUE]

\* deleteApp that pushes no removal once the batch has met a wildcard entry
deleteApp_skipAfterWildcard(m, appId, isWildcard, f) ==
    LET m1 == beginTransaction(m, appId)
        del == sqlDeleteApp(m1.db, appId, Hit(f, appId, 1))
        al == IF del.ok THEN sqlDeleteAppAlert(del.d, appId, Hit(f, appId, 2)) ELSE del
        ok == al.ok
        m2 == commitTransaction(m1, al.d, appId, ok, Hit(f, appId, 3))[1]
    IN  IF ~ok THEN <<[m2 EXCEPT !.ret = FALSE], isWildcard>>
        ELSE IF del.res[2] \/ isWildcard
        THEN <<[emitAppChanged(m2) EXCEPT !.ret = TRUE], TRUE>>
        ELSE <<[emitAppChanged(updateDriverDeleteApp(m2, del.res[1], f)) EXCEPT !.ret = TRUE],
               isWildcard>>

\* deleteApp(appId, isWildcard): the pair <<machine, isWildcard after the call>>
deleteApp(m, appId, isWildcard, f) ==
    LET m1 == beginTransaction(m, appId)
        del == sqlDeleteApp(m1.db, appId, Hit(f, appId, 1))
        al == IF del.ok THEN sqlDeleteAppAlert(del.d, appId, Hit(f, appId, 2)) ELSE del
        ok == al.ok
        m2 == commitTransaction(m1, al.d, appId, ok, Hit(f, appId, 3))[1]
    IN  IF ~ok THEN <<[m2 EXCEPT !.ret = FALSE], isWildcard>>
        ELSE IF del.res[2]
        THEN <<[emitAppChanged(m2) EXCEPT !.ret = TRUE], TRUE>>
        ELSE <<[emitAppChanged(updateDriverDeleteApp(m2, del.res[1], f)) EXCEPT !.ret = TRUE],
               isWildcard>>

RECURSIVE deleteAppsLoop(_, _, _, _)
deleteAppsLoop(m, appIdList, isWildcard, f) ==
    IF appIdList = <<>> THEN <<m, isWildcard>>
    ELSE LET r == deleteApp(m, Head(appIdList), isWildcard, f)
         IN  deleteAppsLoop(r[1], Tail(appIdList), r[2], f)

\* deleteApps starting from the list-size test of updateAppsBlocked
deleteApps_sizeLimit(m, appIdList, f) ==
    LET r == deleteAppsLoop(m, appIdList, Len(appIdList) > BlockedBatchLimit, f)
    IN  IF r[2] THEN [updateDriverConf(r[1], f) EXCEPT !.ret = TRUE]
        ELSE [r[1] EXCEPT !.ret = TRUE]

deleteApps(m, appIdList, f) ==
    LET r == deleteAppsLoop(m, appIdList, FALSE, f)
    IN  IF r[2] THEN [updateDriverConf(r[1], f) EXCEPT !.ret = TRUE]
        ELSE [r[1] EXCEPT !.ret = TRUE]

updateApp(m, app, f) ==
    IF AppGroupIsNull(app.groupIndex) THEN [m EXCEPT !.ret = FALSE]
    ELSE
    LET m1 == beginTransaction(m, app.appId)
        up == sqlUpdateApp(m1.db, app.appId, AppVars(app), Hit(f, app.appId, 1))
        al == IF up.ok THEN sqlDeleteAppAlert(up.d, app.appId, Hit(f, app.appId, 2)) ELSE up
        ok == al.ok
        m2 == commitTransaction(m1, al.d, app.appId, ok, Hit(f, app.appId, 3))[1]
        m3 == IF ok /\ app.endTime # NullTime THEN updateAppEndTimer(m2) ELSE m2
        m4 == IF ok THEN updateDriverUpdateAppConf(emitAppUpdated(m3), app, f) ELSE m3
    IN  [m4 EXCEPT !.ret = ok]

\* loadAppById: <<found, app>>
loadAppById(d, appId) ==
    IF appId \in Ids(d) THEN <<TRUE, fillApp(d, d.apps[appId])>>
    ELSE <<FALSE, [DefaultApp EXCEPT !.appId = appId]>>

\* prepareAppBlocked without the test for unchanged values
prepareAppBlocked_alwaysSave(app, blocked, killProcess) ==
    <<TRUE, [app EXCEPT !.alerted = FALSE, !.blocked = blocked,
                        !.killProcess = killProcess]>>

\* prepareAppBlocked: <<whether anything is to be saved, the app to save>>
prepareAppBlocked(app, blocked, killProcess) ==
    IF ~app.alerted /\ app.blocked = blocked /\ app.killProcess = killProcess
    THEN <<FALSE, [app EXCEPT !.alerted = FALSE]>>
    ELSE <<TRUE, [app EXCEPT !.alerted = FALSE, !.blocked = blocked,
                             !.killProcess = killProcess]>>

\* saveAppBlocked binding the stored kill_process instead of the requested one
saveAppBlocked_keepKill(m, app, f) ==
    LET m1 == beginTransaction(m, app.appId)
        up == sqlUpdateAppBlocked(m1.db, app.appId, app.blocked,
                                  m1.db.apps[app.appId].kill_process,
                                  Hit(f, app.appId, 1))
        al == IF up.ok THEN sqlDeleteAppAlert(up.d, app.appId, Hit(f, app.appId, 2)) ELSE up
        ok == al.ok
        m2 == commitTransaction(m1, al.d, app.appId, ok, Hit(f, app.appId, 3))[1]
        m3 == IF ok THEN emitAppUpdated(m2) ELSE m2
    IN  [m3 EXCEPT !.ret = ok]

saveAppBlocked(m, app, f) ==
    LET m1 == beginTransaction(m, app.appId)
        up == sqlUpdateAppBlocked(m1.db, app.appId, app.blocked, app.killProcess,
                                  Hit(f, app.appId, 1))
        al == IF up.ok THEN sqlDeleteAppAlert(up.d, app.appId, Hit(f, app.appId, 2)) ELSE up
        ok == al.ok
        m2 == commitTransaction(m1, al.d, app.appId, ok, Hit(f, app.appId, 3))[1]
        m3 == IF ok THEN emitAppUpdated(m2) ELSE m2
    IN  [m3 EXCEPT !.ret = ok]

\* updateAppBlocked(appId, blocked, killProcess, isWildcard):
\* <<machine, isWildcard after the call>>
updateAppBlocked(m, appId, blocked, killProcess, isWildcard, f) ==
    LET ld == loadAppById(m.db, appId)
        pr == prepareAppBlocked(ld[2], blocked, killProcess)
        m1 == saveAppBlocked(m, pr[2], f)
    IN  IF ~ld[1] \/ ~pr[1] THEN <<[m EXCEPT !.ret = FALSE], isWildcard>>
        ELSE IF ~m1.ret THEN <<m1, isWildcard>>
        ELSE IF pr[2].isWildcard THEN <<[m1 EXCEPT !.ret = TRUE], TRUE>>
        ELSE <<[updateDriverUpdateApp(m1, pr[2], FALSE, f) EXCEPT !.ret = TRUE], isWildcard>>

RECURSIVE updateAppsBlockedLoop(_, _, _, _, _, _)
updateAppsBlockedLoop(m, appIdList, blocked, killProcess, isWildcard, f) ==
    IF appIdList = <<>> THEN <<m, isWildcard>>
    ELSE LET r == updateAppBlocked(m, Head(appIdList), blocked, killProcess, isWildcard, f)
         IN  updateAppsBlockedLoop(r[1], Tail(appIdList), blocked, killProcess, r[2], f)

\* updateAppsBlocked without the size test
updateAppsBlocked_noLimit(m, appIdList, blocked, killProcess, f) ==
    LET r == updateAppsBlockedLoop(m, appIdList, blocked, killProcess, FALSE, f)
    IN  IF r[2] THEN [updateDriverConf(r[1], f) EXCEPT !.ret = TRUE]
        ELSE [r[1] EXCEPT !.ret = TRUE]

updateAppsBlocked(m, appIdList, blocked, killProcess, f) ==
    LET r == updateAppsBlockedLoop(m, appIdList, blocked, killProcess,
                                   Len(appIdList) > BlockedBatchLimit, f)
    IN  IF r[2] THEN [updateDriverConf(r[1], f) EXCEPT !.ret = TRUE]
        ELSE [r[1] EXCEPT !.ret = TRUE]

\* updateAppName: one statement outside any transaction
updateAppName(m, appId, appName, f) ==
    LET up == sqlUpdateAppName(m.db, appId, appName, Hit(f, appId, 1))
        m1 == checkEndTransaction([m EXCEPT !.db = up.d], up.ok)
        m2 == IF up.ok THEN emitAppUpdated(m1) ELSE m1
    IN  [m2 EXCEPT !.ret = up.ok]

\* the ids of a set in ascending order (the order a table scan returns rows)
RECURSIVE SortedSeq(_)
SortedSeq(S) == IF S = {} THEN <<>> ELSE <<Min(S)>> \o SortedSeq(S \ {Min(S)})

RECURSIVE updateAppEndTimesLoop(_, _, _, _)
updateAppEndTimesLoop(m, d0, appIdList, f) ==
    IF appIdList = <<>> THEN m
    ELSE LET app == [fillApp(d0, d0.apps[Head(appIdList)]) EXCEPT
                        !.blocked = TRUE, !.killProcess = FALSE]
         IN  updateAppEndTimesLoop(updateApp(m, app, f), d0, Tail(appIdList), f)

\* updateAppEndTimes: the timeout slot of m_appEndTimer
\* updateAppEndTimes returning without setting the timer again
updateAppEndTimes_noRearm(m, f) ==
    LET ended == SortedSeq(sqlSelectEndedApps(m.db, m.now))
    IN  [updateAppEndTimesLoop(m, m.db, ended, f) EXCEPT !.ret = TRUE]

updateAppEndTimes(m, f) ==
    LET ended == SortedSeq(sqlSelectEndedApps(m.db, m.now))
    IN  [updateAppEndTimer(updateAppEndTimesLoop(m, m.db, ended, f)) EXCEPT !.ret = TRUE]

-----------------------------------------------------------------------------
(* Inputs *)

\* an entry as a caller fills it: path p, deadline e, and one of two sets of
\* option values d (group, spelling of the origin path, name, options, kill flag)
MkApp(p, w, b, e, d) ==
    [DefaultApp EXCEPT
        !.groupIndex = d - 1,
        !.appOriginPath = IF p = NoPath THEN 100 + d ELSE 2 * p + 1 - d,
        !.appPath = p,
        !.appName = IF d = 1 THEN "n1" ELSE "n2",
        !.isWildcard = w,
        !.opts = d,
        !.blocked = b,
        !.killProcess = (d = 2),
        !.endTime = e]

\* a non-wildcard entry has a path, a wildcard entry has none
PathKinds == {<<1, FALSE>>, <<2, FALSE>>, <<NoPath, TRUE>>}

AppInputs ==
    {MkApp(pw[1], pw[2], b, e, d) :
        pw \in PathKinds, b \in BOOLEAN, e \in {NullTime, 1500}, d \in 1 .. 2}

\* an entry whose group index names no group
BadGroupApp == [MkApp(1, FALSE, FALSE, NullTime, 1) EXCEPT !.groupIndex = 2]

StmtFaults == {[NoFault EXCEPT !.stmt = n] : n \in 1 .. 3}

PushFaults == {[NoFault EXCEPT !.push = r] : r \in {"encode", "write"}}

Faults == {NoFault} \cup StmtFaults \cup PushFaults

\* the entries written under a fault
FaultApps == {MkApp(1, FALSE, FALSE, 1500, 2), MkApp(NoPath, TRUE, TRUE, NullTime, 1)}

WriteInputs ==
    ((AppInputs \cup {BadGroupApp}) \X {NoFault}) \cup (FaultApps \X (Faults \ {NoFault}))

\* the faults of a batch call: as Faults, or a store fault on one id only
BatchFaults(ids) == Faults \cup {[g EXCEPT !.on = i] : g \in StmtFaults, i \in ids}

\* the stored rows the program starts with (the database outlives the process):
\* allowed, allowed until a deadline, or blocked
RowInputs ==
    {RowOf(0, AppVars(MkApp(pw[1], pw[2], be[1], be[2], 1))) :
        pw \in PathKinds,
        be \in {<<FALSE, NullTime>>, <<FALSE, 1040>>, <<TRUE, NullTime>>}}

DbOf(rows, alerts) ==
    [apps |-> [i \in 1 .. Len(rows) |-> [rows[i] EXCEPT !.app_id = i]], alerts |-> alerts]

\* a row can be alerted only as logBlockedApp leaves it: with a path, no
\* deadline, not wildcard
Alertable(row) == row.path # NoPath /\ ~row.is_wildcard /\ row.end_time = NullTime

InitDbs ==
    {EmptyDb} \cup {DbOf(<<r>>, {}) : r \in RowInputs}
              \cup {DbOf(<<r>>, {1}) : r \in {x \in RowInputs : Alertable(x) /\ x.path = 1}}

-----------------------------------------------------------------------------
(* State machine *)

Machine ==
    [db |-> db, timer |-> timer, pend |-> pend, mask |-> mask, now |-> now,
     log |-> <<>>, ret |-> TRUE]

Snapshot == [db |-> db, timer |-> timer, pend |-> pend, mask |-> mask]

Call(op, app, ids, f) == [op |-> op, app |-> app, ids |-> ids, f |-> f, ret |-> TRUE]

\* the state after construction and setUp(): setupAppEndTimer arms the timer
\* from the stored rows
InitWith(dbs) ==
    /\ db \in dbs
    /\ now = StartTime
    /\ timer = updateAppEndTimer([db |-> db, timer |-> StoppedTimer, pend |-> {},
                                  mask |-> {}, now |-> StartTime, log |-> <<>>,
                                  ret |-> TRUE]).timer
    /\ pend = {}
    /\ mask = {}
    /\ log = <<>>
    /\ last = Call("setUp", DefaultApp, <<>>, NoFault)
    /\ pre = [db |-> db, timer |-> timer, pend |-> {}, mask |-> {}]
    /\ ops = 0

Init == InitWith(InitDbs)

\* one handler call that turned the machine into m
Done(m, call) ==
    /\ ops < MaxOps
    /\ db' = m.db
    /\ timer' = m.timer
    /\ pend' = m.pend
    /\ mask' = m.mask
    /\ log' = m.log
    /\ last' = [call EXCEPT !.ret = m.ret]
    /\ pre' = Snapshot
    /\ ops' = ops + 1
    /\ UNCHANGED now

AddApp ==
    \E in \in WriteInputs :
        Done(addApp(Machine, in[1], in[2]), Call("addApp", in[1], <<>>, in[2]))

UpdateApp ==
    \E in \in WriteInputs, id \in Ids(db) :
        LET app == [in[1] EXCEPT !.appId = id]
        IN  Done(updateApp(Machine, app, in[2]), Call("updateApp", app, <<id>>, in[2]))

UpdateAppName ==
    \E id \in Ids(db), appName \in {"n2"}, f \in {NoFault, [NoFault EXCEPT !.stmt = 1]} :
        Done(updateAppName(Machine, id, appName, f),
             Call("updateAppName", [DefaultApp EXCEPT !.appId = id, !.appName = appName],
                  <<id>>, f))

LogBlockedApp ==
    \E o \in OriginPaths, b \in BOOLEAN, f \in {NoFault} \cup StmtFaults :
        Done(logBlockedApp(Machine, o, b, "n1", f),
             Call("logBlockedApp",
                  [DefaultApp EXCEPT !.appOriginPath = o, !.blocked = b, !.appName = "n1"],
                  <<>>, f))

\* the lists of distinct stored ids a caller may pass, in ascending order
IdLists(d) == {SortedSeq(S) : S \in SUBSET Ids(d) \ {{}}}

UpdateAppsBlocked ==
    \E ids \in IdLists(db), b \in BOOLEAN, k \in BOOLEAN :
        \E f \in BatchFaults({ids[i] : i \in 1 .. Len(ids)}) :
            Done(updateAppsBlocked(Machine, ids, b, k, f),
                 Call("updateAppsBlocked",
                      [DefaultApp EXCEPT !.blocked = b, !.killProcess = k], ids, f))

DeleteApps ==
    \E ids \in IdLists(db) :
        \E f \in BatchFaults({ids[i] : i \in 1 .. Len(ids)}) :
            Done(deleteApps(Machine, ids, f), Call("deleteApps", DefaultApp, ids, f))

TimerDue == timer.active /\ now >= timer.startedAt + timer.interval

\* m_appEndTimer times out
AppEndTimeout ==
    /\ TimerDue
    /\ \E f \in BatchFaults(sqlSelectEndedApps(db, now)) :
           Done(updateAppEndTimes([Machine EXCEPT !.timer = StoppedTimer], f),
                Call("updateAppEndTimes", DefaultApp,
                     SortedSeq(sqlSelectEndedApps(db, now)), f))

\* LogManager::systemTimeChanged: the wall clock was set to another instant
SystemTimeChanged ==
    /\ ops < MaxOps
    /\ \E t \in TimePoints \ {now} :
        LET m == updateAppEndTimer([Machine EXCEPT !.now = t])
        IN  /\ now' = t
            /\ db' = m.db /\ timer' = m.timer /\ pend' = m.pend /\ mask' = m.mask
            /\ log' = m.log
            /\ last' = Call("systemTimeChanged", DefaultApp, <<>>, NoFault)
            /\ pre' = Snapshot
            /\ ops' = ops + 1

\* time passes
Tick ==
    /\ ops < MaxOps
    /\ \E t \in TimePoints : t > now /\ now' = t
    /\ log' = <<>>
    /\ last' = Call("tick", DefaultApp, <<>>, NoFault)
    /\ pre' = Snapshot
    /\ ops' = ops + 1
    /\ UNCHANGED <<db, timer, pend, mask>>

Next ==
    \/ AddApp
    \/ UpdateApp
    \/ UpdateAppName
    \/ LogBlockedApp
    \/ UpdateAppsBlocked
    \/ DeleteApps
    \/ AppEndTimeout
    \/ SystemTimeChanged
    \/ Tick

Spec == Init /\ [][Next]_vars

-----------------------------------------------------------------------------
(* Batch operations on larger stores *)

\* n rows, those in W wildcard entries, the others entries with path 1..n
BatchDb(n, W) ==
    DbOf([i \in 1 .. n |->
             RowOf(i, AppVars(MkApp(IF i \in W THEN NoPath ELSE i, i \in W,
                                    FALSE, NullTime, 1)))], {})

BatchDbs ==
    {BatchDb(n, W) : n \in {3, MaxBatch}, W \in {{}, {1}, {2, 3}}}

\* the first k ids, the last k ids, and each single id
BatchLists(d) ==
    {SortedSeq({i \in Ids(d) : i <= k}) : k \in Ids(d)}
        \cup {SortedSeq({i \in Ids(d) : i >= k}) : k \in Ids(d)}

\* no fault, the first statement failing for the list's first id, the commit
\* failing for its last id, or the driver rejecting every push
BatchListFaults(ids) ==
    {NoFault, [NoFault EXCEPT !.stmt = 1, !.on = Head(ids)],
     [NoFault EXCEPT !.stmt = 3, !.on = ids[Len(ids)]], [NoFault EXCEPT !.push = "write"]}

BatchDone(m, call) ==
    /\ ops < BatchOps
    /\ db' = m.db
    /\ timer' = m.timer
    /\ pend' = m.pend
    /\ mask' = m.mask
    /\ log' = m.log
    /\ last' = [call EXCEPT !.ret = m.ret]
    /\ pre' = Snapshot
    /\ ops' = ops + 1
    /\ UNCHANGED now

DeleteAppsBatch ==
    \E ids \in BatchLists(db) : \E f \in BatchListFaults(ids) :
        BatchDone(deleteApps(Machine, ids, f), Call("deleteApps", DefaultApp, ids, f))

UpdateAppsBlockedBatch ==
    \E ids \in BatchLists(db), b \in BOOLEAN, k \in BOOLEAN :
        \E f \in BatchListFaults(ids) :
            BatchDone(updateAppsBlocked(Machine, ids, b, k, f),
                      Call("updateAppsBlocked",
                           [DefaultApp EXCEPT !.blocked = b, !.killProcess = k], ids, f))

NextBatch == DeleteAppsBatch \/ UpdateAppsBlockedBatch

SpecBatch == InitWith(BatchDbs) /\ [][NextBatch]_vars

-----------------------------------------------------------------------------
(* The expiry timer on stores of entries with deadlines *)

\* TimerRows rows with paths 1.., each allowed for ever or until a deadline
TimerDbs ==
    {DbOf([i \in 1 .. TimerRows |->
              RowOf(i, AppVars(MkApp(i, FALSE, FALSE, e[i], 1)))], {}) :
        e \in [1 .. TimerRows -> EndTimes \cup {NullTime}]}

\* time passes
TimePasses ==
    /\ \E t \in TimePoints : t > now /\ now' = t
    /\ log' = <<>>
    /\ last' = Call("tick", DefaultApp, <<>>, NoFault)
    /\ pre' = Snapshot
    /\ UNCHANGED <<db, timer, pend, mask, ops>>

NextTimer == TimePasses \/ AppEndTimeout \/ SystemTimeChanged

SpecTimer == InitWith(TimerDbs) /\ [][NextTimer]_vars

-----------------------------------------------------------------------------
(* The expiry timer when its timeouts are delivered and every write succeeds *)

\* the instant at which the armed timer times out
TimerDueAt == timer.startedAt + timer.interval

\* time passes, to one of the instants of interest or to the timer's timeout
TimeAdvances ==
    /\ \E t \in TimePoints \cup {TimerDueAt} :
           /\ t > now
           /\ timer.active \/ t \in TimePoints
           /\ now' = t
    /\ log' = <<>>
    /\ last' = Call("tick", DefaultApp, <<>>, NoFault)
    /\ pre' = Snapshot
    /\ UNCHANGED <<db, timer, pend, mask, ops>>

\* m_appEndTimer times out and every statement of the handler succeeds
AppEndTimeoutOk ==
    /\ TimerDue
    /\ LET m == updateAppEndTimes([Machine EXCEPT !.timer = StoppedTimer], NoFault)
       IN  /\ db' = m.db
           /\ timer' = m.timer
           /\ pend' = m.pend
           /\ mask' = m.mask
           /\ log' = m.log
           /\ last' = [Call("updateAppEndTimes", DefaultApp,
                            SortedSeq(sqlSelectEndedApps(db, now)), NoFault)
                          EXCEPT !.ret = m.ret]
           /\ pre' = Snapshot
    /\ UNCHANGED <<now, ops>>

NextLive == TimeAdvances \/ AppEndTimeoutOk \/ SystemTimeChanged

\* Time does not stand still, and the event loop delivers a due timeout.
\* AppEndTimeoutOk is enabled exactly when TimerDue holds and leaves the timer
\* stopped or armed for a later instant (TimeoutEndsDue), so weak fairness of
\* AppEndTimeoutOk is the condition that the timer is not due for ever.
SpecLive ==
    /\ InitWith(TimerDbs)
    /\ [][NextLive]_vars
    /\ WF_vars(TimeAdvances)
    /\ []<>(~TimerDue)

\* a delivered timeout leaves the timer not due
TimeoutEndsDue == [][AppEndTimeoutOk => ~TimerDue']_vars

-----------------------------------------------------------------------------
(* updateAppEndTimer over deadlines and clock readings of any size *)

\* deadlines MIN(end_time) can answer, as <<q, r>>: none (0), and instants up
\* to more than 2^32 ms
WideDeadlines ==
    {<<q, r>> : q \in 0 .. 5,
                r \in {0, 50, 150, 2000, APP_END_TIMER_INTERVAL_MAX,
                       APP_END_TIMER_INTERVAL_MAX + 1, WideBase - 1}}

\* clock readings, all within the range of the variable now
WideNows == {<<q, r>> : q \in 0 .. 1, r \in {0, 100, 1000, WideBase - 1}}

\* updateAppEndTimer when the store answers endTimeMsecs at time currentMsecs;
\* the two qint64 are kept as last.ids
UpdateAppEndTimerAt ==
    \E endTimeMsecs \in WideDeadlines, currentMsecs \in WideNows :
        /\ now' = currentMsecs[1] * WideBase + currentMsecs[2]
        /\ timer' = IF endTimeMsecs # <<0, 0>>
                    THEN [active |-> TRUE,
                          interval |-> TimerIntervalWide(endTimeMsecs, currentMsecs),
                          startedAt |-> now']
                    ELSE StoppedTimer
        /\ log' = <<>>
        /\ last' = Call("updateAppEndTimer", DefaultApp,
                        <<endTimeMsecs[1], endTimeMsecs[2],
                          currentMsecs[1], currentMsecs[2]>>, NoFault)
        /\ pre' = Snapshot
        /\ UNCHANGED <<db, pend, mask, ops>>

NextInterval == UpdateAppEndTimerAt

SpecInterval == InitWith({EmptyDb}) /\ [][NextInterval]_vars

-----------------------------------------------------------------------------
(* Reading the last call *)

LogIdx(ev) == {i \in DOMAIN log : log[i].ev = ev}

\* transactions of the last call that were committed / that ended without a commit
CommitIdx == {i \in LogIdx("commit") : log[i].res = "ok"}

AbortIdx == {i \in LogIdx("commit") : log[i].res = "fail"}

CommittedIds == {log[i].arg : i \in CommitIdx}

\* driver pushes the last call attempted: single-entry updates, single-entry
\* removals and full snapshots
EntryPushIdx == LogIdx("writeApp") \cup LogIdx("removeApp")

ConfPushIdx == LogIdx("writeConf")

PushIdx == EntryPushIdx \cup ConfPushIdx

EmitIdx == LogIdx("emit")

\* the id addOrUpdateApp's upsert resolves to for the entry of the last call
UpsertId ==
    IF appIdByPath(pre.db, last.app.appPath) # 0
    THEN appIdByPath(pre.db, last.app.appPath)
    ELSE NewId(pre.db)

\* the writable columns of a stored row equal the entry's fields
RowHasFields(row, app) ==
    /\ row.app_group_id = AppGroupId(app.groupIndex)
    /\ row.origin_path = app.appOriginPath
    /\ row.name = app.appName
    /\ row.is_wildcard = app.isWildcard
    /\ row.opts = app.opts
    /\ row.blocked = app.blocked
    /\ row.kill_process = app.killProcess
    /\ row.end_time = app.endTime

-----------------------------------------------------------------------------
(* C1 *)

\* C1: a committed addOrUpdateApp of an entry with (non-empty) path P leaves
\* exactly one row with path P; when a row with P was already stored, that row
\* keeps its id and its writable columns are those of the second entry.
C1_UpsertOverwrites ==
    (last.op = "addApp" /\ CommitIdx # {} /\ last.app.appPath # NoPath) =>
        /\ Cardinality(IdsByPath(db, last.app.appPath)) = 1
        /\ IdsByPath(pre.db, last.app.appPath) # {} =>
               /\ IdsByPath(db, last.app.appPath) = IdsByPath(pre.db, last.app.appPath)
               /\ Ids(db) = Ids(pre.db)
        /\ \A i \in IdsByPath(db, last.app.appPath) : RowHasFields(db.apps[i], last.app)

\* a second write to a stored path, with a different name, group and deadline
C1_Witness ==
    /\ last.op = "addApp" /\ CommitIdx # {}
    /\ \E i \in IdsByPath(pre.db, last.app.appPath) :
           /\ pre.db.apps[i].name # last.app.appName
           /\ pre.db.apps[i].app_group_id # AppGroupId(last.app.groupIndex)
           /\ pre.db.apps[i].end_time # last.app.endTime
           /\ db.apps[i].name = last.app.appName

-----------------------------------------------------------------------------
(* C2 *)

-----------------------------------------------------------------------------
(* C3 *)

\* the row logBlockedApp created in the last call, if any
CreatedIds == Ids(db) \ Ids(pre.db)

-----------------------------------------------------------------------------
(* C4, C5 *)

\* the last end of a transaction before log position p committed
AfterCommit(p) ==
    \E c \in CommitIdx : c < p /\ \A x \in AbortIdx : ~(c < x /\ x < p)

\* C4: a driver push is attempted only after the store transaction has been
\* committed (for the snapshot that ends a batch: after a commit of the
\* batch), and a failed push leaves the committed row as written.
C4_PushOnlyAfterCommit ==
    /\ \A p \in EntryPushIdx : AfterCommit(p)
    /\ \A p \in ConfPushIdx : \E c \in CommitIdx : c < p
    /\ (last.op = "updateApp" /\ last.f.push # "ok" /\ CommitIdx # {}) =>
           RowHasFields(db.apps[last.app.appId], last.app)

\* the last call ran one transaction and a fault hit it
OneFailedTransaction ==
    /\ last.f.stmt # 0
    /\ Cardinality(LogIdx("begin")) = 1
    /\ last.op \in {"addApp", "updateApp", "updateAppsBlocked", "deleteApps"}

\* C5: when a statement of the transaction or its commit fails, the store is
\* as before the call, the call returns failure, no notification is scheduled
\* and no driver push is attempted.
C5_FailedWriteHasNoEffect ==
    OneFailedTransaction =>
        /\ db = pre.db
        /\ EmitIdx = {} /\ pend = pre.pend
        /\ PushIdx = {}
        /\ last.op \in {"addApp", "updateApp"} => ~last.ret

-----------------------------------------------------------------------------
(* C6 *)

\* C6: with exactly three unblocked entries with deadlines t1 < t2 < t3, a
\* timeout of the timer at a time now with t1 <= now < t2 whose writes succeed
\* blocks the first entry and clears its deadline, leaves the other two rows
\* as they were, and re-arms the timer for the deadline t2.
C6_FirstDeadlineOnly ==
    \A i1, i2, i3 \in Ids(pre.db) :
        LET t1 == pre.db.apps[i1].end_time
            t2 == pre.db.apps[i2].end_time
            t3 == pre.db.apps[i3].end_time
        IN  (/\ last.op = "updateAppEndTimes" /\ last.f.stmt = 0
             /\ PendingIds(pre.db) = {i1, i2, i3}
             /\ t1 < t2 /\ t2 < t3
             /\ t1 <= now /\ now < t2) =>
                /\ db.apps[i1].blocked /\ db.apps[i1].end_time = NullTime
                /\ db.apps[i2] = pre.db.apps[i2]
                /\ db.apps[i3] = pre.db.apps[i3]
                /\ timer = [active |-> TRUE, interval |-> TimerInterval(t2, now),
                            startedAt |-> now]
                /\ log[Len(log)] = Ev("timerStart", t2, "ok")

\* the timer fired between the first and the second of three deadlines
C6_Witness ==
    /\ last.op = "updateAppEndTimes" /\ last.f.stmt = 0
    /\ Cardinality(PendingIds(pre.db)) = 3
    /\ Cardinality({pre.db.apps[i].end_time : i \in PendingIds(pre.db)}) = 3
    /\ Cardinality(PendingIds(db)) = 2
    /\ timer.active /\ timer.interval = 300

-----------------------------------------------------------------------------
(* C7 *)

\* the timer is set as updateAppEndTimer sets it for the stored rows
TimerExact ==
    IF PendingIds(db) = {} THEN timer = StoppedTimer
    ELSE /\ timer.active
         /\ timer.interval = TimerInterval(sqlSelectMinEndApp(db), timer.startedAt)

-----------------------------------------------------------------------------
(* C8 *)

-----------------------------------------------------------------------------
(* C9, C10, C11 *)

PreWildcards == {i \in Ids(pre.db) : pre.db.apps[i].is_wildcard}

ListIds == {last.ids[i] : i \in DOMAIN last.ids}

\* C9: deleting one stored entry pushes one single-entry removal and no
\* snapshot when it is not a wildcard entry, and one snapshot and no
\* single-entry push when it is.
C9_SingleDeletePush ==
    (last.op = "deleteApps" /\ Len(last.ids) = 1 /\ CommitIdx # {}) =>
        IF ListIds \subseteq PreWildcards
        THEN Cardinality(ConfPushIdx) = 1 /\ EntryPushIdx = {}
        ELSE /\ Cardinality(LogIdx("removeApp")) = 1
             /\ \A p \in LogIdx("removeApp") :
                    log[p].arg = pre.db.apps[last.ids[1]].path
             /\ LogIdx("writeApp") = {} /\ ConfPushIdx = {}

\* one non-wildcard entry deleted
C9_Witness ==
    /\ last.op = "deleteApps" /\ Len(last.ids) = 1 /\ CommitIdx # {}
    /\ ListIds \cap PreWildcards = {}
    /\ last.ids[1] \notin Ids(db)
    /\ Cardinality(LogIdx("removeApp")) = 1

\* every transaction of the last call was committed
AllCommitted == Cardinality(CommitIdx) = Len(last.ids)

DeletedWildcards == (CommittedIds \cap ListIds) \cap PreWildcards

\* removal pushes of the last call for the path of stored row i
RemovalsOf(i) == {p \in LogIdx("removeApp") : log[p].arg = pre.db.apps[i].path}

\* C11 as claimed: a batch delete that deletes at least one wildcard entry
\* makes exactly one snapshot push, after every commit of the batch, and no
\* single-entry removal push for any entry of the batch.
C11_SnapshotInsteadOfRemovals ==
    (last.op = "deleteApps" /\ DeletedWildcards # {}) =>
        /\ Cardinality(ConfPushIdx) = 1
        /\ \A p \in ConfPushIdx : \A q \in LogIdx("commit") : q < p
        /\ LogIdx("removeApp") = {}

\* C11, amended: such a batch makes exactly one snapshot push, after every
\* commit and every removal push of the batch; each non-wildcard entry the
\* batch deleted still gets its own single-entry removal push, and the
\* wildcard entries get none.
C11_SnapshotAfterRemovals ==
    (last.op = "deleteApps" /\ DeletedWildcards # {}) =>
        /\ Cardinality(ConfPushIdx) = 1
        /\ \A p \in ConfPushIdx : \A q \in LogIdx("commit") \cup LogIdx("removeApp") : q < p
        /\ \A i \in (CommittedIds \cap ListIds) \ PreWildcards :
               Cardinality(RemovalsOf(i)) = 1
        /\ \A i \in ListIds \cap PreWildcards : RemovalsOf(i) = {}
        /\ LogIdx("writeApp") = {}

\* a wildcard entry deleted first, then two entries with a removal push each
C11_Witness ==
    /\ last.op = "deleteApps" /\ AllCommitted
    /\ Len(last.ids) >= 3
    /\ last.ids[1] \in PreWildcards
    /\ Cardinality(ListIds \ PreWildcards) >= 2
    /\ Cardinality(LogIdx("removeApp")) = Cardinality(ListIds \ PreWildcards)
    /\ Cardinality(ConfPushIdx) = 1

-----------------------------------------------------------------------------
(* C12 *)

\* the stored rows the last call committed a change to
TouchedIds ==
    IF last.op = "addApp" THEN (IF CommitIdx # {} THEN {UpsertId} ELSE {})
    ELSE CommittedIds

\* entry i is a wildcard entry before the last call or after it
WildcardBeforeOrAfter(i) ==
    \/ i \in Ids(pre.db) /\ pre.db.apps[i].is_wildcard
    \/ i \in Ids(db) /\ db.apps[i].is_wildcard

\* the paths of entry i before and after the last call
PathsOf(i) ==
    {pre.db.apps[j].path : j \in {i} \cap Ids(pre.db)} \cup {db.apps[j].path : j \in {i} \cap Ids(db)}

\* C12: a committed add, update, blocked-state update, delete or expiry of an
\* entry that is a wildcard entry before or after the call makes a snapshot
\* push and no single-entry push for that entry: single-entry pushes are for
\* entries that are non-wildcard entries both before and after the call.
C12_WildcardAlwaysSnapshot ==
    last.op \in {"addApp", "updateApp", "updateAppsBlocked", "deleteApps",
                 "updateAppEndTimes"} =>
        /\ (\E i \in TouchedIds : WildcardBeforeOrAfter(i)) => ConfPushIdx # {}
        /\ \A i \in TouchedIds : WildcardBeforeOrAfter(i) =>
               \A p \in EntryPushIdx : log[p].arg \notin PathsOf(i)

-----------------------------------------------------------------------------
(* C13 *)

\* C13: every call that commits a change to a row's enforcement data (add,
\* automatic creation, update, blocked-state update, delete, expiry) attempts
\* a driver push, single-entry or snapshot, after the commit and before it
\* returns.
C13_PushAfterEveryCommit ==
    last.op \in {"addApp", "logBlockedApp", "updateApp", "updateAppsBlocked",
                 "deleteApps", "updateAppEndTimes"} =>
        \A c \in CommitIdx : \E p \in PushIdx : c < p

-----------------------------------------------------------------------------
(* C14 *)

\* pushes of the last call whose encoding failed
EncodeFailedIdx == {p \in PushIdx : log[p].res = "encode"}

\* C14 as claimed: when the encoding of the entry or of the snapshot fails,
\* the store is after the call as it was before it.
C14_EncodeFailureBeforeWrite ==
    EncodeFailedIdx # {} => db = pre.db

\* C14, amended: the encoding is attempted, and its failure detected, only
\* after the transaction of the call has ended; addApp and updateApp whose
\* store write succeeded leave the written row in the store, show the error,
\* leave the drive mask as it was and still return the store's success.
C14_EncodeFailureAfterCommit ==
    /\ \A p \in EncodeFailedIdx :
           /\ \E c \in LogIdx("commit") : c < p
           /\ p < Len(log) /\ log[p + 1].ev = "error"
    /\ EncodeFailedIdx # {} => mask = pre.mask
    /\ (last.op = "addApp" /\ last.f.push = "encode"
            /\ ~AppGroupIsNull(last.app.groupIndex)) =>
           /\ last.ret /\ CommitIdx # {} /\ EncodeFailedIdx # {}
           /\ RowHasFields(db.apps[UpsertId], last.app)
    /\ (last.op = "updateApp" /\ last.f.push = "encode" /\ last.ret) =>
           /\ CommitIdx # {} /\ EncodeFailedIdx # {}
           /\ RowHasFields(db.apps[last.app.appId], last.app)

\* an entry is added, its encoding fails, and the new row is in the store
C14_Witness ==
    /\ last.op = "addApp" /\ last.f.push = "encode"
    /\ EncodeFailedIdx # {}
    /\ UpsertId \notin Ids(pre.db)
    /\ UpsertId \in Ids(db)
    /\ last.ret

-----------------------------------------------------------------------------
(* C15 *)

-----------------------------------------------------------------------------
(* C16 *)

\* C16: when updateAppEndTimer finds the deadline d at time now it arms the
\* timer with interval max(min(max(d - now, 0), 86400000), 100), which lies
\* between 100 ms and one day also when d is in the past and when d - now is
\* beyond one day or beyond the range of a 32-bit int; with no deadline it
\* stops the timer.
C16_IntervalClamped ==
    last.op = "updateAppEndTimer" =>
        LET d == <<last.ids[1], last.ids[2]>>
            c == <<last.ids[3], last.ids[4]>>
            \* d - now when it is below 2^30, which is more than one day
            near == (d[1] - c[1]) * WideBase + d[2] - c[2]
            expected ==
                IF d[1] < c[1] \/ (d[1] = c[1] /\ d[2] <= c[2]) THEN 100
                ELSE IF d[1] - c[1] >= 2 THEN 86400000
                ELSE IF d[1] - c[1] = 1 /\ d[2] >= c[2] THEN 86400000
                ELSE IF near > 86400000 THEN 86400000
                ELSE IF near < 100 THEN 100
                ELSE near
        IN  IF d = <<0, 0>> THEN timer = StoppedTimer
            ELSE /\ timer.active
                 /\ timer.interval = expected
                 /\ timer.interval >= 100 /\ timer.interval <= 86400000

\* a deadline more than 2^32 ms after the clock reading armed the timer for
\* one day
C16_Witness ==
    /\ last.op = "updateAppEndTimer"
    /\ last.ids[1] = 5 /\ last.ids[2] = 50
    /\ last.ids[3] = 0 /\ last.ids[4] = 0
    /\ timer.active /\ timer.interval = APP_END_TIMER_INTERVAL_MAX

-----------------------------------------------------------------------------
(* C17 *)

\* C17: a successful updateAppName changes only the name of its row: every
\* other field, every other row and the alerts stay as they were, nothing is
\* pushed to the driver, the timer and the drive mask are untouched, and the
\* only notification requested is "updated".
C17_RenameOnlyName ==
    (last.op = "updateAppName" /\ last.ret) =>
        /\ Ids(db) = Ids(pre.db)
        /\ \A i \in Ids(db) :
              db.apps[i] = IF i = last.app.appId
                           THEN [pre.db.apps[i] EXCEPT !.name = last.app.appName]
                           ELSE pre.db.apps[i]
        /\ db.alerts = pre.db.alerts
        /\ PushIdx = {}
        /\ LogIdx("timerStart") \cup LogIdx("timerStop") = {}
        /\ timer = pre.timer
        /\ mask = pre.mask
        /\ {log[i].res : i \in EmitIdx} = {"updated"}
        /\ pend = pre.pend \cup {"updated"}

\* an entry with a pending deadline was renamed while the timer was running
C17_Witness ==
    /\ last.op = "updateAppName" /\ last.ret
    /\ pre.db.apps[last.app.appId].end_time # NullTime
    /\ pre.timer.active
    /\ db.apps[last.app.appId].name = "n2"
    /\ pre.db.apps[last.app.appId].name # "n2"

-----------------------------------------------------------------------------
(* C18 *)

\* C18: a blocked-state update that committed for an entry stored the
\* requested blocked and killProcess, set end_time to NULL and removed the
\* entry's alert, for blocked = TRUE and for blocked = FALSE, and left every
\* other column of the row as it was.
C18_BlockedUpdateEffect ==
    last.op = "updateAppsBlocked" =>
        \A i \in CommittedIds :
            /\ i \in Ids(db)
            /\ db.apps[i] = [pre.db.apps[i] EXCEPT
                                !.blocked = last.app.blocked,
                                !.kill_process = last.app.killProcess,
                                !.end_time = NullTime]
            /\ i \notin db.alerts

\* a blocked entry was allowed again by a blocked-state update that also
\* changed killProcess
C18_Witness ==
    /\ last.op = "updateAppsBlocked"
    /\ ~last.app.blocked
    /\ \E i \in CommittedIds :
          /\ pre.db.apps[i].blocked
          /\ pre.db.apps[i].kill_process # last.app.killProcess
          /\ ~db.apps[i].blocked

-----------------------------------------------------------------------------
(* C19 *)

\* the pushes of the last call that the driver accepted
OkPushIdx == {i \in PushIdx : log[i].res = "ok"}

\* the drive mask the encode of push p computed: every stored path for a
\* snapshot, the entry's path for a single entry
EncodeMask(p) ==
    IF log[p].ev = "writeConf" THEN ConfDriveMask(db) ELSE PathDrive(log[p].arg)

\* C19 as claimed: after a successful push, snapshot or single entry, the
\* drive mask is the mask that push's encode computed; the previous mask is
\* replaced.  (Stated for snapshots and single-entry updates only; a
\* removal is left out here.)
C19_MaskReplacedByPush ==
    (OkPushIdx # {} /\ log[Max(OkPushIdx)].ev # "removeApp") =>
        mask = EncodeMask(Max(OkPushIdx))

\* the drive mask after the pushes log[i], log[i + 1], ... starting from msk
RECURSIVE MaskAfterPushes(_, _)
MaskAfterPushes(msk, i) ==
    IF i > Len(log) THEN msk
    ELSE IF i \notin OkPushIdx THEN MaskAfterPushes(msk, i + 1)
    ELSE IF log[i].ev = "writeConf" THEN MaskAfterPushes(EncodeMask(i), i + 1)
    ELSE IF log[i].ev = "writeApp" THEN MaskAfterPushes(msk \cup EncodeMask(i), i + 1)
    ELSE MaskAfterPushes(msk, i + 1)

\* C19, amended: a successful snapshot replaces the drive mask by the mask
\* of its encode; a successful single-entry update adds the entry's mask to
\* the previous mask; a successful single-entry removal and a failed push
\* leave the mask as it was.
C19_MaskAfterPush ==
    /\ mask = MaskAfterPushes(pre.mask, 1)
    /\ OkPushIdx = {} => mask = pre.mask
    /\ (OkPushIdx # {} /\ log[Max(OkPushIdx)].ev = "writeConf") => mask = ConfDriveMask(db)

\* a single-entry update was pushed while the mask held another drive: the
\* mask now holds both
C19_Witness ==
    /\ OkPushIdx # {}
    /\ log[Max(OkPushIdx)].ev = "writeApp"
    /\ pre.mask # {}
    /\ ~(pre.mask \subseteq EncodeMask(Max(OkPushIdx)))
    /\ mask = pre.mask \cup EncodeMask(Max(OkPushIdx))

-----------------------------------------------------------------------------
(* The notification triggers with their timeouts delivered.  The log is     *)
(* kept across calls here, so it is the history of emit calls and signals.  *)

NotifyDone(m, call) ==
    /\ ops < NotifyOps
    /\ db' = m.db
    /\ timer' = m.timer
    /\ pend' = m.pend
    /\ mask' = m.mask
    /\ log' = log \o m.log
    /\ last' = [call EXCEPT !.ret = m.ret]
    /\ pre' = Snapshot
    /\ ops' = ops + 1
    /\ UNCHANGED now

LogBlockedAppNotify ==
    \E o \in OriginPaths :
        NotifyDone(logBlockedApp(Machine, o, TRUE, "n1", NoFault),
                   Call("logBlockedApp",
                        [DefaultApp EXCEPT !.appOriginPath = o], <<>>, NoFault))

UpdateAppNameNotify ==
    \E id \in Ids(db) :
        NotifyDone(updateAppName(Machine, id, "n2", NoFault),
                   Call("updateAppName",
                        [DefaultApp EXCEPT !.appId = id, !.appName = "n2"],
                        <<id>>, NoFault))

UpdateAppsBlockedNotify ==
    \E ids \in IdLists(db), b \in BOOLEAN :
        NotifyDone(updateAppsBlocked(Machine, ids, b, FALSE, NoFault),
                   Call("updateAppsBlocked",
                        [DefaultApp EXCEPT !.blocked = b], ids, NoFault))

DeleteAppsNotify ==
    \E ids \in IdLists(db) :
        NotifyDone(deleteApps(Machine, ids, NoFault),
                   Call("deleteApps", DefaultApp, ids, NoFault))

\* one flag shared by the three channels: a timeout disarms all of them
TriggerTimeout_shared(ch) ==
    /\ ch \in pend
    /\ pend' = {}
    /\ log' = Append(log, Ev("signal", 0, ch))
    /\ UNCHANGED <<db, timer, mask, now, last, pre, ops>>

\* QTimer::timeout of the trigger of channel ch: the trigger is idle again
\* and the signal connected to it (appAlerted, appChanged, appUpdated) is
\* emitted
TriggerTimeout(ch) ==
    /\ ch \in pend
    /\ pend' = pend \ {ch}
    /\ log' = Append(log, Ev("signal", 0, ch))
    /\ UNCHANGED <<db, timer, mask, now, last, pre, ops>>

TriggerTimeouts == \E ch \in Channels : TriggerTimeout(ch)

NextNotify ==
    \/ LogBlockedAppNotify
    \/ UpdateAppNameNotify
    \/ UpdateAppsBlockedNotify
    \/ DeleteAppsNotify
    \/ TriggerTimeouts

\* the event loop delivers the timeout of every armed trigger
SpecNotify ==
    /\ InitWith(InitDbs)
    /\ [][NextNotify]_vars
    /\ \A ch \in Channels : WF_vars(TriggerTimeout(ch))

-----------------------------------------------------------------------------
(* C20 *)

\* positions of the emit calls and of the signals of channel ch
EmitsOf(ch) == {i \in LogIdx("emit") : log[i].res = ch}

SignalsOf(ch) == {i \in LogIdx("signal") : log[i].res = ch}

\* channel ch is armed exactly when it has an emit call after its last
\* signal, and each of its signals follows at least one emit call made
\* after its previous signal; both depend on the events of ch alone
CoalescedChannel(ch) ==
    /\ ch \in pend <=> \E e \in EmitsOf(ch) : \A sg \in SignalsOf(ch) : sg < e
    /\ \A sg \in SignalsOf(ch) :
          \E e \in EmitsOf(ch) :
              e < sg /\ \A s2 \in SignalsOf(ch) : s2 < sg => s2 < e

\* C20: on each of the channels alerted, changed and updated, the n >= 1
\* emit calls made before the trigger fires are answered by exactly one
\* signal on that channel (an armed channel is eventually signalled, and a
\* signal disarms it until the next emit call), whatever happens on the
\* other channels.
C20_OneSignalPerBurst ==
    /\ [](\A ch \in Channels : CoalescedChannel(ch))
    /\ \A ch \in Channels : (ch \in pend) ~> (ch \notin pend)

\* two emit calls on "updated" were answered by one signal while "changed"
\* was still armed
C20_Witness ==
    /\ Cardinality(EmitsOf("updated")) >= 2
    /\ Cardinality(SignalsOf("updated")) = 1
    /\ \A e \in EmitsOf("updated") : \A sg \in SignalsOf("updated") : e < sg
    /\ "changed" \in pend
    /\ "updated" \notin pend

-----------------------------------------------------------------------------
(* The policy manager of a client process (rpc/confappmanagerrpc.h)         *)

\* setupServices installing the master's manager in every process
ManagerClass_alwaysMaster(isMaster) == "ConfAppManager"

\* setupServices: the class of the policy manager a process installs
ManagerClass(isMaster) ==
    IF isMaster THEN "ConfAppManager" ELSE "ConfAppManagerRpc"

\* a forwarding override: the call is handed to the master process, nothing
\* is done locally
rpcForward(m, op) == [Logged(m, "rpc", 0, op) EXCEPT !.ret = TRUE]

\* a virtual call of one of addApp, deleteApps, purgeApps, updateApp,
\* updateAppsBlocked, updateAppName: base is what ConfAppManager does
Override(cls, op, m, base) ==
    IF cls = "ConfAppManagerRpc" THEN rpcForward(m, op) ELSE base

\* purgeApps: deletes the entries whose file is missing
purgeApps(m, missing, f) ==
    deleteApps(m, SortedSeq({i \in Ids(m.db) \cap missing :
                                m.db.apps[i].path # NoPath}), f)

\* the virtual updateDriverConf (ConfAppManagerRpc returns false)
updateDriverConfOf(cls, m, f) ==
    IF cls = "ConfAppManagerRpc" THEN [m EXCEPT !.ret = FALSE] ELSE updateDriverConf(m, f)

\* setUp: purgeAppsOnStart, setupAppEndTimer (both empty in
\* ConfAppManagerRpc), setupDriveListManager
setUp(cls, m, progPurgeOnStart, missing) ==
    IF cls = "ConfAppManagerRpc" THEN m
    ELSE updateAppEndTimer(IF progPurgeOnStart
                           THEN Override(cls, "purgeApps", m, purgeApps(m, missing, NoFault))
                           ELSE m)

ClientClass == ManagerClass(FALSE)

InitClient ==
    /\ db \in InitDbs
    /\ now = StartTime
    /\ \E purge \in BOOLEAN :
          LET m == setUp(ClientClass,
                         [db |-> db, timer |-> StoppedTimer, pend |-> {}, mask |-> {},
                          now |-> StartTime, log |-> <<>>, ret |-> TRUE],
                         purge, {})
          IN  /\ timer = m.timer
              /\ pend = m.pend
              /\ mask = m.mask
              /\ log = m.log
    /\ last = Call("setUp", DefaultApp, <<>>, NoFault)
    /\ pre = [db |-> db, timer |-> StoppedTimer, pend |-> {}, mask |-> {}]
    /\ ops = 0

ClientAddApp ==
    \E in \in WriteInputs :
        Done(Override(ClientClass, "addApp", Machine, addApp(Machine, in[1], in[2])),
             Call("addApp", in[1], <<>>, in[2]))

ClientUpdateApp ==
    \E in \in WriteInputs, id \in Ids(db) :
        LET app == [in[1] EXCEPT !.appId = id]
        IN  Done(Override(ClientClass, "updateApp", Machine, updateApp(Machine, app, in[2])),
                 Call("updateApp", app, <<id>>, in[2]))

ClientDeleteApps ==
    \E ids \in IdLists(db) :
        Done(Override(ClientClass, "deleteApps", Machine, deleteApps(Machine, ids, NoFault)),
             Call("deleteApps", DefaultApp, ids, NoFault))

ClientPurgeApps ==
    \E missing \in SUBSET Ids(db) :
        Done(Override(ClientClass, "purgeApps", Machine,
                      purgeApps(Machine, missing, NoFault)),
             Call("purgeApps", DefaultApp, SortedSeq(missing), NoFault))

ClientUpdateAppsBlocked ==
    \E ids \in IdLists(db), b \in BOOLEAN, k \in BOOLEAN :
        Done(Override(ClientClass, "updateAppsBlocked", Machine,
                      updateAppsBlocked(Machine, ids, b, k, NoFault)),
             Call("updateAppsBlocked",
                  [DefaultApp EXCEPT !.blocked = b, !.killProcess = k], ids, NoFault))

ClientUpdateAppName ==
    \E id \in Ids(db), appName \in Names :
        Done(Override(ClientClass, "updateAppName", Machine,
                      updateAppName(Machine, id, appName, NoFault)),
             Call("updateAppName", [DefaultApp EXCEPT !.appId = id, !.appName = appName],
                  <<id>>, NoFault))

ClientUpdateDriverConf ==
    \E f \in {NoFault} \cup PushFaults :
        Done(updateDriverConfOf(ClientClass, Machine, f),
             Call("updateDriverConf", DefaultApp, <<>>, f))

\* DriveListManager::driveMaskChanged(addedMask, removedMask)
ClientDriveMaskChanged ==
    \E addedMask \in SUBSET {0, 1} :
        Done(IF mask \cap addedMask # {}
             THEN updateDriverConfOf(ClientClass, Machine, NoFault)
             ELSE Machine,
             Call("driveMaskChanged", DefaultApp, SortedSeq(addedMask), NoFault))

NextClient ==
    \/ ClientAddApp
    \/ ClientUpdateApp
    \/ ClientDeleteApps
    \/ ClientPurgeApps
    \/ ClientUpdateAppsBlocked
    \/ ClientUpdateAppName
    \/ ClientUpdateDriverConf
    \/ ClientDriveMaskChanged

SpecClient == InitClient /\ [][NextClient]_vars

-----------------------------------------------------------------------------
(* C21 *)

\* C21: the policy manager of a client process is the forwarding one: its
\* set-up purges nothing and arms no expiry timer, its updateDriverConf
\* encodes and pushes nothing and returns false, and each of addApp,
\* deleteApps, purgeApps, updateApp, updateAppsBlocked and updateAppName is
\* forwarded; the store, the timer and the driver are never touched.
C21_ClientForwardsOnly ==
    /\ ClientClass = "ConfAppManagerRpc"
    /\ db = pre.db
    /\ timer = StoppedTimer
    /\ mask = {}
    /\ \A i \in DOMAIN log : log[i].ev = "rpc"
    /\ last.op \in {"setUp", "updateDriverConf", "driveMaskChanged"} => log = <<>>
    /\ last.op = "updateDriverConf" => ~last.ret
    /\ last.op \in {"addApp", "deleteApps", "purgeApps", "updateApp",
                     "updateAppsBlocked", "updateAppName"}
          => log = <<Ev("rpc", 0, last.op)>>

\* an update was forwarded by a client whose store holds a pending deadline:
\* the client's timer is not armed
C21_Witness ==
    /\ last.op = "updateApp"
    /\ log = <<Ev("rpc", 0, "updateApp")>>
    /\ PendingIds(db) # {}
    /\ ~timer.active

-----------------------------------------------------------------------------
(* C22 *)

\* C22: a driver push that fails, at the encode or at the transport step,
\* shows its error message exactly once and is not attempted again: a later
\* push of the same kind for the same entry in the call belongs to a later
\* commit, and a call that opens no transaction pushes nothing.
C22_FailedPushShownOnceNoRetry ==
    LET failed == {p \in PushIdx : log[p].res # "ok"}
    IN  /\ \A p \in failed :
              /\ p < Len(log)
              /\ log[p + 1].ev = "error"
              /\ (p + 2 <= Len(log) => log[p + 2].ev # "error")
        /\ (last.f.push # "ok" /\ LogIdx("commit") \subseteq CommitIdx) =>
              Cardinality(LogIdx("error")) = Cardinality(failed)
        /\ \A p \in failed : \A q \in PushIdx :
              (q > p /\ log[q].ev = log[p].ev /\ log[q].arg = log[p].arg)
                  => \E k \in LogIdx("commit") : p < k /\ k < q
        /\ LogIdx("begin") = {} => PushIdx = {}

\* the snapshot push after a committed write was refused by the driver: one
\* error message, and the call ends
C22_Witness ==
    /\ last.f.push = "write"
    /\ Len(log) >= 2
    /\ log[Len(log) - 1] = Ev("writeConf", 0, "write")
    /\ log[Len(log)].ev = "error"
    /\ Cardinality(LogIdx("error")) = 1
    /\ CommitIdx # {}

-----------------------------------------------------------------------------
(* Changes of the global options (fortmanager.cpp)                          *)

\* ConfAppManager::updateDriverConf(onlyFlags): with onlyFlags the buffer is
\* ConfUtil::writeFlags, the option flags without the policy table, from a
\* ConfUtil that has seen no path
updateDriverConfOnly(m, onlyFlags, f) ==
    IF ~onlyFlags THEN updateDriverConf(m, f)
    ELSE IF f.push # "ok"
    THEN [showErrorMessage(Logged(m, "writeFlags", 0, f.push)) EXCEPT !.ret = FALSE]
    ELSE [Logged(m, "writeFlags", 0, "ok") EXCEPT !.mask = {}, !.ret = TRUE]

\* FortManager::updateDriverConf: the manager's push between
\* updateLogManager(false) and updateLogManager(true)
FortManager_updateDriverConf(m, onlyFlags, f) == updateDriverConfOnly(m, onlyFlags, f)

\* the confChanged handler pushing only when the whole configuration changed
onConfChanged_fullOnly(m, onlyFlags, flagsEdited, f) ==
    IF ~onlyFlags THEN FortManager_updateDriverConf(m, onlyFlags, f) ELSE m

\* the handler FortManager::setupConfManager connects to ConfManager::confChanged
onConfChanged(m, onlyFlags, flagsEdited, f) ==
    IF ~onlyFlags \/ flagsEdited THEN FortManager_updateDriverConf(m, onlyFlags, f) ELSE m

\* last.ids of a confChanged call: <<onlyFlags, flagsEdited>> as 0 / 1
ConfChanged ==
    \E onlyFlags \in BOOLEAN, flagsEdited \in BOOLEAN, f \in {NoFault} \cup PushFaults :
        Done(onConfChanged(Machine, onlyFlags, flagsEdited, f),
             Call("confChanged", DefaultApp,
                  <<IF onlyFlags THEN 1 ELSE 0, IF flagsEdited THEN 1 ELSE 0>>, f))

NextConf == ConfChanged \/ AddApp \/ DeleteApps

SpecConf == Init /\ [][NextConf]_vars

-----------------------------------------------------------------------------
(* C23 *)

-----------------------------------------------------------------------------
(* C24 *)

\* C24: logBlockedApp for a path that has a row changes nothing; for a path
\* with no row it creates one row, alerted, in group 0, blocked as the event
\* says, and the "alerted" notification is scheduled exactly when that row
\* was written.
C24_AutoCreateOnce ==
    last.op = "logBlockedApp" =>
        LET appPath == normalizePath(last.app.appOriginPath)
            alertedEmits == {i \in EmitIdx : log[i].res = "alerted"}
        IN  IF IdsByPath(pre.db, appPath) # {}
            THEN /\ db = pre.db
                 /\ log = <<>>
                 /\ pend = pre.pend
                 /\ timer = pre.timer
            ELSE /\ \A i \in Ids(pre.db) : i \in Ids(db) /\ db.apps[i] = pre.db.apps[i]
                 /\ Cardinality(CreatedIds) <= 1
                 /\ \A i \in CreatedIds :
                       /\ i \in db.alerts
                       /\ db.apps[i].path = appPath
                       /\ db.apps[i].app_group_id = AppGroupId(0)
                       /\ db.apps[i].blocked = last.app.blocked
                 /\ alertedEmits # {} <=> CreatedIds # {}

-----------------------------------------------------------------------------
(* C25 *)

-----------------------------------------------------------------------------
(* C26 *)

\* C26: in a blocked-state update, an entry that is not alerted and whose
\* stored blocked and killProcess equal the requested values is skipped: no
\* transaction, no notification, no single-entry push, and it gives no
\* reason for a snapshot; an alerted entry is always written, which clears
\* its alert, also when its values equal the requested ones.
C26_UnchangedBlockedIsNoOp ==
    last.op = "updateAppsBlocked" =>
        LET ids == {last.ids[n] : n \in DOMAIN last.ids}
            unchanged(i) == /\ i \notin pre.db.alerts
                            /\ pre.db.apps[i].blocked = last.app.blocked
                            /\ pre.db.apps[i].kill_process = last.app.killProcess
            begun == {log[n].arg : n \in LogIdx("begin")}
        IN  /\ \A i \in ids :
                  unchanged(i) => /\ i \notin begun
                                  /\ db.apps[i] = pre.db.apps[i]
            /\ Cardinality(EmitIdx) <= Cardinality({i \in ids : ~unchanged(i)})
            /\ Cardinality(EntryPushIdx) <= Cardinality({i \in ids : ~unchanged(i)})
            /\ (Len(last.ids) <= BlockedBatchLimit /\ ConfPushIdx # {}) =>
                  \E i \in ids : ~unchanged(i) /\ pre.db.apps[i].is_wildcard
            /\ (Len(last.ids) <= BlockedBatchLimit /\ \A i \in ids : unchanged(i)) =>
                  /\ log = <<>>
                  /\ db = pre.db /\ pend = pre.pend /\ timer = pre.timer
                  /\ mask = pre.mask
            /\ \A i \in ids \cap pre.db.alerts :
                  /\ i \in begun
                  /\ i \in CommittedIds => i \notin db.alerts

\* a wildcard entry with the requested values was skipped, and an alerted
\* entry with the requested values was written in the same call
C26_Witness ==
    /\ last.op = "updateAppsBlocked"
    /\ \E i \in Ids(pre.db) \ pre.db.alerts, j \in pre.db.alerts :
          /\ last.ids = <<i, j>> \/ last.ids = <<j, i>>
          /\ pre.db.apps[i].is_wildcard
          /\ pre.db.apps[i].blocked = last.app.blocked
          /\ pre.db.apps[i].kill_process = last.app.killProcess
          /\ pre.db.apps[j].blocked = last.app.blocked
          /\ pre.db.apps[j].kill_process = last.app.killProcess
          /\ j \in CommittedIds /\ j \notin db.alerts
          /\ ConfPushIdx = {}

-----------------------------------------------------------------------------
(* C27 *)

\* C27: when no store statement fails, updateAppsBlocked with more than 7
\* ids makes exactly one snapshot push, after every row was processed,
\* whatever the wildcard flags and whether or not a row changed; with 7 or
\* fewer ids it makes one snapshot push exactly when a changed row is a
\* wildcard entry, none otherwise; in both cases every changed row that is
\* not a wildcard entry gets its own single-entry push.
C27_BlockedBatchPushes ==
    (last.op = "updateAppsBlocked" /\ LogIdx("commit") \subseteq CommitIdx) =>
        LET changed == CommittedIds
        IN  /\ Len(last.ids) > BlockedBatchLimit =>
                  /\ Cardinality(ConfPushIdx) = 1
                  /\ \A p \in ConfPushIdx :
                        \A q \in LogIdx("begin") \cup LogIdx("commit") \cup EntryPushIdx : q < p
            /\ Len(last.ids) <= BlockedBatchLimit =>
                  /\ Cardinality(ConfPushIdx) = (IF changed \cap PreWildcards # {} THEN 1 ELSE 0)
                  /\ \A p \in ConfPushIdx :
                        \A q \in LogIdx("begin") \cup LogIdx("commit") \cup EntryPushIdx : q < p
            /\ Cardinality(LogIdx("writeApp")) = Cardinality(changed \ PreWildcards)
            /\ \A i \in changed \ PreWildcards :
                  \E p \in LogIdx("writeApp") : log[p].arg = pre.db.apps[i].path
            /\ LogIdx("removeApp") = {}

\* more than 7 entries were blocked in one call: the entries that are not
\* wildcard entries were pushed one by one and one snapshot followed
C27_Witness ==
    /\ last.op = "updateAppsBlocked"
    /\ last.f = NoFault
    /\ Len(last.ids) > BlockedBatchLimit
    /\ ListIds \cap PreWildcards # {}
    /\ Cardinality(LogIdx("writeApp")) = Cardinality(ListIds \ PreWildcards)
    /\ LogIdx("writeApp") # {}
    /\ ConfPushIdx = {Len(log)}

-----------------------------------------------------------------------------
(* C28 *)

\* C28: expiry processing changes, of an expired row, only blocked (to
\* TRUE), kill_process (to FALSE), end_time (to NULL) and the alert record:
\* name, origin_path, path, is_wildcard, group and options are as before.
C28_ExpiryKeepsOtherFields ==
    last.op = "updateAppEndTimes" =>
        \A i \in CommittedIds :
            db.apps[i] = [pre.db.apps[i] EXCEPT !.blocked = TRUE,
                                                !.kill_process = FALSE,
                                                !.end_time = NullTime]

-----------------------------------------------------------------------------
(* C29 *)

-----------------------------------------------------------------------------
(* The program edit dialog opened on several selected entries *)

\* ProgramEditDialog::isWildcard: the flag of the row the dialog was opened on
isWildcard(m_appRow) == m_appRow.isWildcard

\* AppListModel::appRowById: the stored row of an id, name included
appRowById(d, appId) ==
    IF appId \in Ids(d)
    THEN [fillApp(d, d.apps[appId]) EXCEPT !.appName = d.apps[appId].name,
                                           !.endTime = d.apps[appId].end_time]
    ELSE DefaultApp

\* the widgets of a dialog opened on more than one entry: the path, wildcard
\* and name edits are empty and read-only (initializePathField,
\* initializeNameField), the option widgets are as the user set them
MultiWidgets ==
    {[editPath |-> 0, editWildcard |-> 0, editName |-> "",
      groupIndex |-> g, opts |-> 2, blocked |-> b, killProcess |-> k, endTime |-> e] :
        g \in GroupIndexes, b \in BOOLEAN, k \in BOOLEAN, e \in {NullTime, 1500}}

\* ProgramEditDialog::fillApp: the entry read from the widgets; the deadline
\* is read only for an allowed entry
dialogFillApp(m_appRow, w) ==
    [DefaultApp EXCEPT
        !.isWildcard = isWildcard(m_appRow),
        !.opts = w.opts,
        !.blocked = w.blocked,
        !.killProcess = w.killProcess,
        !.groupIndex = w.groupIndex,
        !.appName = w.editName,
        !.appOriginPath = IF isWildcard(m_appRow) THEN w.editWildcard ELSE w.editPath,
        !.appPath = normalizePath(w.editPath),
        !.endTime = IF ~w.blocked THEN w.endTime ELSE NullTime]

\* ProgramEditDialog::saveMulti: each selected id in turn takes its own origin
\* path, path and name from the list model and is written with updateApp; the
\* first failed write ends the loop
RECURSIVE saveMulti(_, _, _, _)
saveMulti(m, app, appIdList, f) ==
    IF appIdList = <<>> THEN [m EXCEPT !.ret = TRUE]
    ELSE
    LET appId == Head(appIdList)
        appRow == appRowById(m.db, appId)
        a == [app EXCEPT !.appId = appId,
                         !.appOriginPath = appRow.appOriginPath,
                         !.appPath = appRow.appPath,
                         !.appName = appRow.appName]
        r == updateApp(m, a, f)
    IN  IF ~r.ret THEN [r EXCEPT !.ret = FALSE]
        ELSE saveMulti(r, a, Tail(appIdList), f)

\* ProgramEditDialog::save with more than one selected id
save(m, m_appRow, m_appIdList, w, f) ==
    saveMulti(m, dialogFillApp(m_appRow, w), m_appIdList, f)

\* three stored rows with different names, those in W wildcard entries
DialogDbs ==
    {DbOf([i \in 1 .. 3 |->
              RowOf(i, AppVars(MkApp(IF i \in W THEN NoPath ELSE i, i \in W,
                                     FALSE, NullTime, IF i = 2 THEN 2 ELSE 1)))], {}) :
        W \in {{}, {1}, {2, 3}, {1, 2, 3}}}

\* two or three rows are selected and the dialog is opened on one of them; a
\* write may fail for the last selected id
SaveMulti ==
    \E ids \in {SortedSeq(S) : S \in {T \in SUBSET Ids(db) : Cardinality(T) >= 2}},
       w \in MultiWidgets :
        \E cur \in {ids[n] : n \in DOMAIN ids},
           f \in {NoFault, [NoFault EXCEPT !.stmt = 1, !.on = ids[Len(ids)]]} :
            LET m_appRow == appRowById(db, cur)
            IN  Done(save(Machine, m_appRow, ids, w, f),
                     Call("saveMulti", [dialogFillApp(m_appRow, w) EXCEPT !.appId = cur],
                          ids, f))

SpecDialog == InitWith(DialogDbs) /\ [][SaveMulti]_vars

-----------------------------------------------------------------------------
(* C30 *)

\* C30: a bulk edit (saveMulti) in which every write succeeds writes the
\* dialog's option fields (group, options, blocked, kill flag, deadline) to
\* every selected row and leaves each row's origin_path, path, name and
\* is_wildcard as stored before the edit, whatever mix of wildcard and
\* non-wildcard rows is selected.
C30_BulkEditKeepsIdentity ==
    (last.op = "saveMulti" /\ last.f = NoFault) =>
        \A n \in DOMAIN last.ids :
            LET i == last.ids[n]
            IN  /\ db.apps[i].app_group_id = AppGroupId(last.app.groupIndex)
                /\ db.apps[i].opts = last.app.opts
                /\ db.apps[i].blocked = last.app.blocked
                /\ db.apps[i].kill_process = last.app.killProcess
                /\ db.apps[i].end_time = last.app.endTime
                /\ db.apps[i].origin_path = pre.db.apps[i].origin_path
                /\ db.apps[i].path = pre.db.apps[i].path
                /\ db.apps[i].name = pre.db.apps[i].name
                /\ db.apps[i].is_wildcard = pre.db.apps[i].is_wildcard

====
